---- MODULE Spec2Model ----
(***************************************************************************)
(* IS 1893 Seismic Base Shear Calculator (src/seismic_calculator.py).      *)
(*                                                                         *)
(* The program is a Streamlit script: every user interaction (a radio      *)
(* selection, an edited number box, a pressed button) runs the whole       *)
(* script once, top to bottom.  One action of this module is one such run. *)
(* What survives between runs is st.session_state (numeric_result, values, *)
(* graph_image) and the state of the widgets (year, storeys).  What one    *)
(* run shows and the next run does not (the exception box, the Excel       *)
(* download, the PDF download) is the page of that run: error, excel, pdf. *)
(*                                                                         *)
(* Python floats are modelled by exact rationals <<numerator, denominator>>*)
(* in lowest terms with a positive denominator; the operations are applied *)
(* in the order the source applies them.  A float division by zero raises  *)
(* ZeroDivisionError in Python; the raised exception is the value <<0,0>>, *)
(* which every later operation of the expression hands on.                 *)
(***************************************************************************)
EXTENDS Integers, Sequences, FiniteSets

VARIABLES
    year,            \* st.radio "Select Code Year"
    numeric_result,  \* st.session_state["numeric_result"]: sequence of <<label, value>>
    values,          \* st.session_state["values"]: sequence of <<label, value>>
    graph_image,     \* st.session_state["graph_image"]: the plotted bars, or None
    storeys,         \* st.number_input "Number of Storeys"
    event,           \* the interaction that started the latest run
    error,           \* the exception the latest run ended with ("" when none)
    excel,           \* the rows of the Excel download the latest run offers
    pdf              \* the report the latest run built

vars == <<year, numeric_result, values, graph_image, storeys, event, error, excel, pdf>>

----------------------------------------------------------------------------
(* Floats *)

Abs(n) == IF n < 0 THEN -n ELSE n

RECURSIVE GCD(_, _)
GCD(a, b) == IF b = 0 THEN a ELSE GCD(b, a % b)

Rat(n, d) ==
    LET s == IF d < 0 THEN -1 ELSE 1
        g == GCD(Abs(n), Abs(d))
    IN  <<(s * n) \div g, (s * d) \div g>>

ZeroDivisionError == <<0, 0>>

IsRaised(x) == x = ZeroDivisionError

Float(i) == <<i, 1>>

FloatMul(a, b) ==
    IF IsRaised(a) \/ IsRaised(b) THEN ZeroDivisionError
    ELSE Rat(a[1] * b[1], a[2] * b[2])

\* A division that yields the dividend where Python raises.
FloatDivGuarded(a, b) ==
    IF IsRaised(a) \/ IsRaised(b) THEN ZeroDivisionError
    ELSE IF b[1] = 0 THEN a
    ELSE Rat(a[1] * b[2], a[2] * b[1])

FloatDiv(a, b) ==
    IF IsRaised(a) \/ IsRaised(b) THEN ZeroDivisionError
    ELSE IF b[1] = 0 THEN ZeroDivisionError
    ELSE Rat(a[1] * b[2], a[2] * b[1])

Less(a, b) == a[1] * b[2] < b[1] * a[2]

\* format(v, ".4f"): v rounded to four decimals, ties to even.
Format4f(v) ==
    LET n == v[1] * 10000
        q == n \div v[2]
        r == n - q * v[2]
        m == IF 2 * r > v[2] THEN q + 1
             ELSE IF 2 * r < v[2] THEN q
             ELSE IF q % 2 = 0 THEN q ELSE q + 1
    IN  Rat(m, 10000)

----------------------------------------------------------------------------
(* Dictionaries and None *)

\* A Python dict is the sequence of its items, in insertion order.
Keys(d) == [k \in DOMAIN d |-> d[k][1]]

Vals(d) == [k \in DOMAIN d |-> d[k][2]]

None == [storey_list |-> <<>>, shear |-> <<>>]

----------------------------------------------------------------------------
(* The year branches: the inputs each year asks for and its formula *)

Years == {1962, 1966, 1970, 1975, 1984, 2002, 2016, 2025}

Zero == <<0, 1>>

One == <<1, 1>>

\* A box that also falls back to its default when the user entered 0
\* (`entered or default`).
NumberInputOr(entered, f, default) ==
    IF f \in DOMAIN entered /\ entered[f] # Zero THEN entered[f] ELSE default

\* A box that shows 1.0 whatever its declared default.
NumberInputOne(entered, f, default) ==
    IF f \in DOMAIN entered THEN entered[f] ELSE One

\* st.number_input(label, value=default): what the user entered in this box,
\* or the declared default when the user entered nothing.
NumberInput(entered, f, default) ==
    IF f \in DOMAIN entered THEN entered[f] ELSE default

\* The local names of the number boxes of a year, in the order the script
\* declares them.
Fields(y) ==
    CASE y = 1962 -> <<"ah", "W">>
      [] y = 1966 -> <<"C", "ah", "W">>
      [] y = 1970 -> <<"C", "ah", "beta", "W">>
      [] y = 1975 -> <<"C", "beta", "I", "ao", "W">>
      [] y = 1984 -> <<"K", "C", "beta", "I", "ao", "W">>
      [] y \in {2002, 2016} -> <<"Z", "I", "R", "Sa_g", "W">>
      [] y = 2025 -> <<"Z", "I", "R", "A_NH", "A_NV", "W">>

FieldSet(y) == {Fields(y)[k] : k \in DOMAIN Fields(y)}

\* The value= argument of a box: 1.0 for I and R, 0.0 for every other box.
Default(f) == IF f \in {"I", "R"} THEN One ELSE Zero

FormulaText(y) ==
    CASE y = 1962 -> "F = ah x W"
      [] y = 1966 -> "Vb = C x ah x W"
      [] y = 1970 -> "Vb = C x ah x beta x W"
      [] y = 1975 -> "Vb = C x beta x I x ao x W"
      [] y = 1984 -> "Vb = K x C x beta x I x ao x W"
      [] y \in {2002, 2016} -> "Vb = (Z / 2) x (I / R) x (Sa/g) x W"
      [] y = 2025 -> "VBD,H = (Z x I x A_NH / R) x W   |   VBD,V = (Z x I x A_NV) x W"

\* Each branch below is the body of `if st.button("Calculate")` of its year:
\* raised tells whether the body raised before it stored anything, and
\* numeric_result and values are the two dicts it stores otherwise.
Calc1962(entered) ==
    LET ah == NumberInput(entered, "ah", Zero)
        W  == NumberInput(entered, "W", Zero)
        F  == FloatMul(ah, W)
    IN  [raised |-> IsRaised(F),
         numeric_result |-> << <<"F (kN)", F>> >>,
         values |-> << <<"ah", ah>>, <<"W (kN)", W>> >>]

Calc1966(entered) ==
    LET C  == NumberInput(entered, "C", Zero)
        ah == NumberInput(entered, "ah", Zero)
        W  == NumberInput(entered, "W", Zero)
        Vb == FloatMul(FloatMul(C, ah), W)
    IN  [raised |-> IsRaised(Vb),
         numeric_result |-> << <<"Vb (kN)", Vb>> >>,
         values |-> << <<"C", C>>, <<"ah", ah>>, <<"W (kN)", W>> >>]

Calc1970(entered) ==
    LET C    == NumberInput(entered, "C", Zero)
        ah   == NumberInput(entered, "ah", Zero)
        beta == NumberInput(entered, "beta", Zero)
        W    == NumberInput(entered, "W", Zero)
        Vb   == FloatMul(FloatMul(FloatMul(C, ah), beta), W)
    IN  [raised |-> IsRaised(Vb),
         numeric_result |-> << <<"Vb (kN)", Vb>> >>,
         values |-> << <<"C", C>>, <<"ah", ah>>, <<"beta", beta>>, <<"W (kN)", W>> >>]

\* The 1975 branch with the importance factor left out of the product.
Calc1975NoI(entered) ==
    LET C    == NumberInput(entered, "C", Zero)
        beta == NumberInput(entered, "beta", Zero)
        I    == NumberInput(entered, "I", One)
        ao   == NumberInput(entered, "ao", Zero)
        W    == NumberInput(entered, "W", Zero)
        Vb   == FloatMul(FloatMul(FloatMul(C, beta), ao), W)
    IN  [raised |-> IsRaised(Vb),
         numeric_result |-> << <<"Vb (kN)", Vb>> >>,
         values |-> << <<"C", C>>, <<"beta", beta>>, <<"I", I>>, <<"ao", ao>>,
                       <<"W (kN)", W>> >>]

Calc1975(entered) ==
    LET C    == NumberInput(entered, "C", Zero)
        beta == NumberInput(entered, "beta", Zero)
        I    == NumberInput(entered, "I", One)
        ao   == NumberInput(entered, "ao", Zero)
        W    == NumberInput(entered, "W", Zero)
        Vb   == FloatMul(FloatMul(FloatMul(FloatMul(C, beta), I), ao), W)
    IN  [raised |-> IsRaised(Vb),
         numeric_result |-> << <<"Vb (kN)", Vb>> >>,
         values |-> << <<"C", C>>, <<"beta", beta>>, <<"I", I>>, <<"ao", ao>>,
                       <<"W (kN)", W>> >>]

Calc1984(entered) ==
    LET K    == NumberInput(entered, "K", Zero)
        C    == NumberInput(entered, "C", Zero)
        beta == NumberInput(entered, "beta", Zero)
        I    == NumberInput(entered, "I", One)
        ao   == NumberInput(entered, "ao", Zero)
        W    == NumberInput(entered, "W", Zero)
        Vb   == FloatMul(FloatMul(FloatMul(FloatMul(FloatMul(K, C), beta), I), ao), W)
    IN  [raised |-> IsRaised(Vb),
         numeric_result |-> << <<"Vb (kN)", Vb>> >>,
         values |-> << <<"K", K>>, <<"C", C>>, <<"beta", beta>>, <<"I", I>>,
                       <<"ao", ao>>, <<"W (kN)", W>> >>]

\* One branch serves 2002 and 2016.
Calc2002(entered) ==
    LET Z    == NumberInput(entered, "Z", Zero)
        I    == NumberInput(entered, "I", One)
        R    == NumberInput(entered, "R", One)
        Sa_g == NumberInput(entered, "Sa_g", Zero)
        W    == NumberInput(entered, "W", Zero)
        Vb   == FloatMul(FloatMul(FloatMul(FloatDiv(Z, Float(2)), FloatDiv(I, R)), Sa_g), W)
    IN  [raised |-> IsRaised(Vb),
         numeric_result |-> << <<"Vb (kN)", Vb>> >>,
         values |-> << <<"Z", Z>>, <<"I", I>>, <<"R", R>>, <<"Sa/g", Sa_g>>,
                       <<"W (kN)", W>> >>]

Calc2025(entered) ==
    LET Z     == NumberInput(entered, "Z", Zero)
        I     == NumberInput(entered, "I", One)
        R     == NumberInput(entered, "R", One)
        A_NH  == NumberInput(entered, "A_NH", Zero)
        A_NV  == NumberInput(entered, "A_NV", Zero)
        W     == NumberInput(entered, "W", Zero)
        VBD_H == FloatMul(FloatDiv(FloatMul(FloatMul(Z, I), A_NH), R), W)
        VBD_V == FloatMul(FloatMul(FloatMul(Z, I), A_NV), W)
    IN  [raised |-> IsRaised(VBD_H) \/ IsRaised(VBD_V),
         numeric_result |-> << <<"VBD,H (kN)", VBD_H>>, <<"VBD,V (kN)", VBD_V>> >>,
         values |-> << <<"Z", Z>>, <<"I", I>>, <<"R", R>>, <<"A_NH", A_NH>>,
                       <<"A_NV", A_NV>>, <<"W (kN)", W>> >>]

\* The if/elif chain on year.
CalcBranch(y, entered) ==
    CASE y = 1962 -> Calc1962(entered)
      [] y = 1966 -> Calc1966(entered)
      [] y = 1970 -> Calc1970(entered)
      [] y = 1975 -> Calc1975(entered)
      [] y = 1984 -> Calc1984(entered)
      [] y \in {2002, 2016} -> Calc2002(entered)
      [] y = 2025 -> Calc2025(entered)

----------------------------------------------------------------------------
(* The sections below the year branches *)

MinStoreys == 1

\* st.number_input("Number of Storeys", min_value=1, step=1): the values the
\* box can hold after the user typed `typed` into it.  A number below
\* min_value is not accepted: the box keeps its value or shows min_value.
StoreysInputNoMin(current, typed) == {typed}

StoreysInput(current, typed) ==
    IF typed >= MinStoreys THEN {typed} ELSE {current, MinStoreys}

\* if st.session_state["numeric_result"]: the distribution section is shown.
DistributionShown == numeric_result # <<>>

\* if st.session_state["numeric_result"]: the Excel section is shown.
ExcelShown(res) == res # <<>>

\* if numeric_result and graph_image is not None: the PDF section is shown.
PdfShownWithoutGraph == numeric_result # <<>>

PdfShown == numeric_result # <<>> /\ graph_image # None

\* list(range(1, storeys + 1))
StoreyList(n) == [i \in 1 .. n |-> i]

\* list(numeric_result.values())[0]
TotalShear(res) == Vals(res)[1]

\* [(i / storeys) * total_shear for i in storey_list], one storey too low.
ShearFromZero(storey_list, n, total_shear) ==
    [k \in DOMAIN storey_list |->
        FloatMul(FloatDiv(Float(storey_list[k] - 1), Float(n)), total_shear)]

\* The same list with every bar at the full height.
ShearFlat(storey_list, n, total_shear) ==
    [k \in DOMAIN storey_list |-> total_shear]

\* [(i / storeys) * total_shear for i in storey_list]
Shear(storey_list, n, total_shear) ==
    [k \in DOMAIN storey_list |->
        FloatMul(FloatDiv(Float(storey_list[k]), Float(n)), total_shear)]

\* The DataFrame of the Excel download, results put before the inputs.
ExcelRowsResultFirst(vals, res) ==
    IF ExcelShown(res) THEN res \o vals ELSE <<>>

\* The DataFrame of the Excel download: the items of values, then one row
\* appended per item of numeric_result.  <<>> when the section is not shown.
ExcelRows(vals, res) ==
    IF ExcelShown(res) THEN vals \o res ELSE <<>>

NoPdf ==
    [year |-> 0, formula_text |-> "", entered_values |-> <<>>, result |-> <<>>,
     image |-> None]

\* The story of the PDF report: code year, formula, one line per entered
\* value, one line per result (formatted .4f), the stored graph.
PdfStory(y, vals, res, img) ==
    [year |-> y,
     formula_text |-> FormulaText(y),
     entered_values |-> vals,
     result |-> [k \in DOMAIN res |-> <<res[k][1], Format4f(res[k][2])>>],
     image |-> img]

----------------------------------------------------------------------------
(* The numbers a user types *)

MaxStoreys == 3

\* The nonzero number typed into each box.
Other(f) ==
    CASE f = "ah"   -> <<1, 5>>
      [] f = "W"    -> <<10, 1>>
      [] f = "C"    -> <<3, 2>>
      [] f = "beta" -> <<6, 5>>
      [] f = "I"    -> <<3, 2>>
      [] f = "ao"   -> <<2, 25>>
      [] f = "K"    -> <<8, 5>>
      [] f = "Z"    -> <<4, 25>>
      [] f = "R"    -> <<5, 1>>
      [] f = "Sa_g" -> <<5, 2>>
      [] f = "A_NH" -> <<3, 5>>
      [] f = "A_NV" -> <<3, 10>>

\* Every box filled: at most one box with 0 and the others with their nonzero
\* number, or every box with 0 except possibly W and R.
EnteredAll(y) ==
    {[f \in FieldSet(y) |-> IF f \in T THEN Other(f) ELSE Zero] :
        T \in {U \in SUBSET FieldSet(y) :
                  Cardinality(FieldSet(y) \ U) <= 1 \/ U \subseteq {"W", "R"}}}

\* Some boxes filled, the others never touched: at most one box untouched,
\* or none touched.  A filled box holds its nonzero number, except that R may
\* hold 0.
EnteredSome(y) ==
    {[f \in S |-> IF f = "R" /\ z THEN Zero ELSE Other(f)] :
        S \in {U \in SUBSET FieldSet(y) :
                  Cardinality(FieldSet(y) \ U) <= 1 \/ U = {}},
        z \in BOOLEAN}

\* Every box filled with its nonzero number, except that R may be 0 and W may
\* be 0 or negative.
EnteredNarrow(y) ==
    {[f \in FieldSet(y) |->
         IF f = "W" THEN w ELSE IF f \in T THEN Zero ELSE Other(f)] :
        T \in SUBSET (FieldSet(y) \cap {"R"}),
        w \in {Zero, Other("W"), <<-10, 1>>}}

----------------------------------------------------------------------------
(* The runs of the script *)

Event(type, entered, n) == [type |-> type, entered |-> entered, storeys |-> n]

Init ==
    /\ year = 1962
    /\ numeric_result = <<>>
    /\ values = <<>>
    /\ graph_image = None
    /\ storeys = MinStoreys
    /\ event = Event("load", <<>>, 0)
    /\ error = ""
    /\ excel = <<>>
    /\ pdf = NoPdf

\* The user picks another year: the run shows that year's boxes and formula.
SelectYear(y) ==
    /\ y # year
    /\ year' = y
    /\ event' = Event("year", <<>>, 0)
    /\ error' = ""
    /\ excel' = ExcelRows(values, numeric_result)
    /\ pdf' = NoPdf
    /\ UNCHANGED <<numeric_result, values, graph_image, storeys>>

\* The user presses Calculate with `entered` typed into the boxes.  A run
\* that raises stops there: nothing is stored, the page shows the exception
\* and none of the sections below it, and the storeys box, not drawn in this
\* run, keeps its value or is reset, depending on the Streamlit version.
Calculate(entered) ==
    LET b == CalcBranch(year, entered)
    IN  /\ event' = Event("calculate", entered, 0)
        /\ pdf' = NoPdf
        /\ IF b.raised
           THEN /\ error' = "ZeroDivisionError"
                /\ excel' = <<>>
                /\ storeys' \in {storeys, MinStoreys}
                /\ UNCHANGED <<year, numeric_result, values, graph_image>>
           ELSE /\ numeric_result' = b.numeric_result
                /\ values' = b.values
                /\ error' = ""
                /\ excel' = ExcelRows(b.values, b.numeric_result)
                /\ UNCHANGED <<year, graph_image, storeys>>

\* The user types a number into the storeys box.
SetStoreys(n) ==
    /\ error = ""
    /\ DistributionShown
    /\ n # storeys
    /\ storeys' \in StoreysInput(storeys, n)
    /\ event' = Event("storeys", <<>>, n)
    /\ error' = ""
    /\ excel' = ExcelRows(values, numeric_result)
    /\ pdf' = NoPdf
    /\ UNCHANGED <<year, numeric_result, values, graph_image>>

\* The user presses Generate Distribution Graph.
GenerateGraph ==
    /\ error = ""
    /\ DistributionShown
    /\ LET total_shear == TotalShear(numeric_result)
           storey_list == StoreyList(storeys)
           shear       == Shear(storey_list, storeys, total_shear)
       IN  graph_image' = [storey_list |-> storey_list, shear |-> shear]
    /\ event' = Event("graph", <<>>, 0)
    /\ error' = ""
    /\ excel' = ExcelRows(values, numeric_result)
    /\ pdf' = NoPdf
    /\ UNCHANGED <<year, numeric_result, values, storeys>>

\* The user presses Generate PDF Report.
GeneratePDF ==
    /\ error = ""
    /\ PdfShown
    /\ pdf' = PdfStory(year, values, numeric_result, graph_image)
    /\ event' = Event("pdf", <<>>, 0)
    /\ error' = ""
    /\ excel' = ExcelRows(values, numeric_result)
    /\ UNCHANGED <<year, numeric_result, values, graph_image, storeys>>

Next ==
    \/ \E y \in Years : SelectYear(y)
    \/ \E e \in EnteredNarrow(year) : Calculate(e)
    \/ \E n \in 0 .. MaxStoreys : SetStoreys(n)
    \/ GenerateGraph
    \/ GeneratePDF

Spec == Init /\ [][Next]_vars

\* The user only picks years and presses Calculate, over more inputs.
NextEval ==
    \/ \E y \in Years : SelectYear(y)
    \/ \E e \in EnteredAll(year) \cup EnteredSome(year) : Calculate(e)

SpecEval == Init /\ [][NextEval]_vars

----------------------------------------------------------------------------
(* What the claims speak of *)

\* The number the latest run read from box f.
In(f) == IF f \in DOMAIN event.entered THEN event.entered[f] ELSE Default(f)

\* The latest run is a press of Calculate.
Pressed == event.type = "calculate"

\* The year of the latest run divides by R, and R was 0.
ZeroR == "R" \in FieldSet(year) /\ In("R") = Zero

RECURSIVE ProdN(_)
ProdN(s) == IF s = <<>> THEN 1 ELSE s[1][1] * ProdN(Tail(s))

RECURSIVE ProdD(_)
ProdD(s) == IF s = <<>> THEN 1 ELSE s[1][2] * ProdD(Tail(s))

\* v is the product of the numbers of up divided by the product of those of
\* down, none of which is 0.
IsQuotient(v, up, down) ==
    /\ v[2] # 0
    /\ ProdN(down) # 0
    /\ v[1] * ProdD(up) * ProdN(down) = v[2] * ProdN(up) * ProdD(down)

\* The label a box has in the stored values.
Label(f) == IF f = "W" THEN "W (kN)" ELSE IF f = "Sa_g" THEN "Sa/g" ELSE f

DeclaredLabels(y) == [k \in DOMAIN Fields(y) |-> Label(Fields(y)[k])]

ResultLabels(y) ==
    IF y = 1962 THEN <<"F (kN)">>
    ELSE IF y = 2025 THEN <<"VBD,H (kN)", "VBD,V (kN)">>
    ELSE <<"Vb (kN)">>

\* The stored values are the numbers the latest run read, in declared order.
InputsStored ==
    /\ Keys(values) = DeclaredLabels(year)
    /\ Vals(values) = [k \in DOMAIN Fields(year) |-> In(Fields(year)[k])]

\* The stored result is the formula of the spec table for the shown year,
\* applied to the numbers the latest run read.
TableResult ==
    /\ Keys(numeric_result) = ResultLabels(year)
    /\ Len(numeric_result) = IF year = 2025 THEN 2 ELSE 1
    /\ LET v == Vals(numeric_result)
       IN  CASE year = 1962 -> IsQuotient(v[1], <<In("ah"), In("W")>>, <<>>)
             [] year = 1966 -> IsQuotient(v[1], <<In("C"), In("ah"), In("W")>>, <<>>)
             [] year = 1970 ->
                  IsQuotient(v[1], <<In("C"), In("ah"), In("beta"), In("W")>>, <<>>)
             [] year = 1975 ->
                  IsQuotient(v[1], <<In("C"), In("beta"), In("I"), In("ao"), In("W")>>,
                             <<>>)
             [] year = 1984 ->
                  IsQuotient(v[1], <<In("K"), In("C"), In("beta"), In("I"), In("ao"),
                                     In("W")>>, <<>>)
             [] year \in {2002, 2016} ->
                  IsQuotient(v[1], <<In("Z"), In("I"), In("Sa_g"), In("W")>>,
                             <<Float(2), In("R")>>)
             [] year = 2025 ->
                  /\ IsQuotient(v[1], <<In("Z"), In("I"), In("A_NH"), In("W")>>,
                                <<In("R")>>)
                  /\ IsQuotient(v[2], <<In("Z"), In("I"), In("A_NV"), In("W")>>, <<>>)

\* C1 as stated: for every year and every set of inputs, pressing Calculate
\* stores the inputs and a result that equals the year's formula of the spec
\* table, with two entries for 2025 and one entry otherwise.
C1_EveryInputStoresTableResult ==
    Pressed => error = "" /\ InputsStored /\ TableResult

\* C1 amended: pressing Calculate stores the inputs and the year's table
\* formula applied to them (two entries for 2025, one otherwise) for every set
\* of inputs except R = 0 in 2002, 2016 and 2025, where the run raises
\* ZeroDivisionError.
C1_TableResultUnlessZeroR ==
    Pressed =>
        IF ZeroR THEN error = "ZeroDivisionError"
        ELSE error = "" /\ InputsStored /\ TableResult

C1_Witness ==
    /\ Pressed /\ error = ""
    /\ year = 2025
    /\ \A f \in FieldSet(year) : In(f) = Other(f)
    /\ Len(numeric_result) = 2
    /\ numeric_result[1][2] # numeric_result[2][2]

\* C2 as stated: in 2002, 2016 and 2025 a press of Calculate with R = 0
\* completes without an error and stores a result for the inputs of the press.
C2_ZeroRStoresResult ==
    Pressed /\ ZeroR => error = "" /\ InputsStored

\* C2 amended: in 2002, 2016 and 2025 a press of Calculate with R = 0 raises
\* ZeroDivisionError, which the page shows in place of the sections below the
\* inputs, and stores nothing: numeric_result and values keep what they held
\* before the press.
C2_ZeroRRaisesAndStoresNothing ==
    [][(Pressed /\ ZeroR)' =>
          /\ error' = "ZeroDivisionError"
          /\ excel' = <<>>
          /\ numeric_result' = numeric_result
          /\ values' = values]_vars

C2_Witness ==
    /\ Pressed /\ ZeroR
    /\ error = "ZeroDivisionError"
    /\ numeric_result # <<>>
    /\ ~InputsStored

\* Every box of the shown year other than those of `free` read 0, and W read
\* a positive number.
AllZeroBut(free) ==
    /\ \A f \in FieldSet(year) \ free : In(f) = Zero
    /\ Less(Zero, In("W"))

\* C3 as stated: with every input 0 except W > 0, the press stores a result
\* whose entries are all 0, in every year, R included among the zero inputs.
C3_AllZeroGivesZero ==
    Pressed /\ AllZeroBut({"W"}) =>
        /\ error = "" /\ InputsStored
        /\ \A k \in DOMAIN numeric_result : numeric_result[k][2] = Zero

\* C3 amended: with every input other than W and R equal to 0 and W > 0, the
\* press stores a result whose entries are all 0, provided R is not 0 where
\* the year takes R; with R = 0 as well (2002, 2016, 2025) the run raises
\* ZeroDivisionError instead.
C3_AllZeroGivesZeroUnlessZeroR ==
    Pressed /\ AllZeroBut({"W", "R"}) =>
        IF ZeroR THEN error = "ZeroDivisionError"
        ELSE /\ error = "" /\ InputsStored
             /\ \A k \in DOMAIN numeric_result : numeric_result[k][2] = Zero

C3_Witness ==
    /\ Pressed /\ AllZeroBut({"W", "R"})
    /\ year = 2025 /\ In("R") = Other("R") /\ "R" \in DOMAIN event.entered
    /\ error = ""
    /\ numeric_result = << <<"VBD,H (kN)", Zero>>, <<"VBD,V (kN)", Zero>> >>

\* The boxes other than I and R that the user left untouched in the latest run.
Untouched == (FieldSet(year) \ DOMAIN event.entered) \ {"I", "R"}

\* C4 as stated: a press with a required input other than I and R not supplied
\* fails with a missing-input error and computes no result.
C4_MissingInputFails ==
    Pressed /\ Untouched # {} => error = "MissingInputError" /\ ~InputsStored

\* C4 amended: a box other than I and R that the user never touched reads 0.0,
\* its declared default; a press then raises no missing-input error, and
\* unless it raises ZeroDivisionError for R = 0 it stores 0.0 for that input
\* and the year's formula computed with it.
C4_UntouchedBoxReadsZero ==
    Pressed /\ Untouched # {} =>
        IF ZeroR THEN error = "ZeroDivisionError"
        ELSE /\ error = ""
             /\ \A k \in DOMAIN Fields(year) :
                    Fields(year)[k] \in Untouched => values[k][2] = Zero
             /\ \A k \in DOMAIN Fields(year) :
                    Fields(year)[k] \in DOMAIN event.entered =>
                        values[k][2] = event.entered[Fields(year)[k]]
             /\ TableResult

C4_Witness ==
    /\ Pressed /\ error = ""
    /\ year = 2025 /\ Untouched = {"A_NH"}
    /\ numeric_result[1][2] = Zero /\ numeric_result[2][2] # Zero

\* The latest run is a press of Generate Distribution Graph.
Generated == event.type = "graph"

\* C5: generating the distribution for the stored result and n >= 1 storeys
\* yields exactly n bars for storeys 1..n in order; bar i equals
\* (i / n) * totalShear, where totalShear is the first entry of the stored
\* result (VBD,H for 2025); the last bar equals totalShear.
C5_DistributionIsLinearShare ==
    Generated =>
        LET n     == storeys
            total == numeric_result[1][2]
            bars  == graph_image.shear
        IN  /\ n >= 1
            /\ Len(numeric_result) = 2 => numeric_result[1][1] = "VBD,H (kN)"
            /\ Len(graph_image.storey_list) = n
            /\ \A i \in 1 .. n : graph_image.storey_list[i] = i
            /\ Len(bars) = n
            /\ \A i \in 1 .. n :
                   /\ bars[i][2] > 0
                   /\ bars[i][1] * n * total[2] = i * total[1] * bars[i][2]
            /\ bars[n] = total

C5_Witness ==
    /\ Generated
    /\ storeys = MaxStoreys
    /\ Len(numeric_result) = 2
    /\ numeric_result[1][2] # Zero
    /\ numeric_result[1][2] # numeric_result[2][2]

\* C6 as stated: for every result a Calculate can store and every n >= 2 the
\* generated distribution is strictly increasing.
C6_StrictlyIncreasing ==
    Generated /\ storeys >= 2 =>
        \A i \in 1 .. storeys - 1 :
            Less(graph_image.shear[i], graph_image.shear[i + 1])

\* C6 amended: for n >= 2 the generated distribution is strictly increasing,
\* from totalShear/n at storey 1 to totalShear at storey n, when the stored
\* totalShear is positive; when totalShear is 0 (as for the default inputs)
\* every bar is 0, and when it is negative the bars strictly decrease.
C6_IncreasingForPositiveTotal ==
    Generated /\ storeys >= 2 =>
        LET n     == storeys
            total == numeric_result[1][2]
            bars  == graph_image.shear
        IN  /\ Less(Zero, total) =>
                /\ \A i \in 1 .. n - 1 : Less(bars[i], bars[i + 1])
                /\ bars[1][1] * n * total[2] = total[1] * bars[1][2]
                /\ bars[n] = total
            /\ total = Zero => \A i \in 1 .. n : bars[i] = Zero
            /\ Less(total, Zero) => \A i \in 1 .. n - 1 : Less(bars[i + 1], bars[i])

C6_Witness ==
    /\ Generated
    /\ storeys = MaxStoreys
    /\ Less(Zero, numeric_result[1][2])
    /\ Less(graph_image.shear[1], graph_image.shear[2])

\* C7 as stated: a distribution request with a storey count below 1 fails
\* with an invalid-storey-count error.
C7_LowStoreyCountFails ==
    event.type = "storeys" /\ event.storeys < 1 => error = "InvalidStoreyCountError"

\* C7 amended: the storeys box accepts no number below 1 and raises no error
\* for one: its value stays at least 1, so every distribution is computed,
\* and every division by the storey count performed, with a storey count of
\* at least 1.
C7_StoreyCountNeverBelowOne ==
    /\ storeys >= 1
    /\ event.type = "storeys" /\ event.storeys < 1 => error = ""
    /\ graph_image # None =>
           /\ Len(graph_image.storey_list) >= 1
           /\ \A i \in DOMAIN graph_image.shear : ~IsRaised(graph_image.shear[i])
    /\ Generated => Len(graph_image.shear) = storeys

C7_Witness ==
    /\ event.type = "storeys" /\ event.storeys = 0
    /\ storeys >= 1
    /\ graph_image # None

\* C8: the stored distribution graph, the one the PDF report embeds, is the
\* distribution of the currently stored primary result over the current
\* storey count.
C8_GraphIsCurrent ==
    graph_image # None =>
        /\ Len(graph_image.shear) = storeys
        /\ graph_image.shear[Len(graph_image.shear)] = numeric_result[1][2]

\* C8, for the report alone: the graph a generated PDF embeds is the
\* distribution of the result the same PDF prints.
C8_ReportGraphIsCurrent ==
    event.type = "pdf" =>
        /\ Len(pdf.image.shear) = storeys
        /\ pdf.image.shear[Len(pdf.image.shear)] = numeric_result[1][2]

NoDuplicates(s) == Cardinality({s[k] : k \in DOMAIN s}) = Len(s)

\* `rows` lists the inputs of some year in declared order, then that year's
\* result entries in declared order, each label once.
InputsThenResults(rows) ==
    \E y \in Years :
        /\ Keys(rows) = DeclaredLabels(y) \o ResultLabels(y)
        /\ Keys(values) = DeclaredLabels(y)
        /\ Keys(numeric_result) = ResultLabels(y)
        /\ NoDuplicates(Keys(rows))

\* C9: the exported record (the Excel rows, the lines of the PDF report)
\* lists first every stored input, in the declared input order of the year
\* that was calculated, then every result entry in declared order (VBD,H
\* before VBD,V); nothing is omitted or duplicated.
C9_ExportListsInputsThenResults ==
    /\ excel # <<>> =>
           /\ InputsThenResults(excel)
           /\ Len(excel) = Len(values) + Len(numeric_result)
           /\ \A k \in DOMAIN values : excel[k] = values[k]
           /\ \A k \in DOMAIN numeric_result : excel[Len(values) + k] = numeric_result[k]
    /\ pdf # NoPdf =>
           /\ InputsThenResults(pdf.entered_values \o pdf.result)
           /\ pdf.entered_values = values
           /\ Keys(pdf.result) = Keys(numeric_result)
    /\ Pressed /\ error = "" => Keys(excel) = DeclaredLabels(year) \o ResultLabels(year)

C9_Witness ==
    /\ event.type = "pdf"
    /\ Len(excel) = 8
    /\ Len(pdf.result) = 2

\* What each step of a request has behind it: a storey count, a graph, an
\* Excel export exist only with a stored result, a PDF report only with a
\* stored result and a stored graph, and the initial state has neither.
StepsNeedResult ==
    /\ event.type = "load" => numeric_result = <<>> /\ graph_image = None
    /\ event.type \in {"storeys", "graph", "pdf"} => numeric_result # <<>>
    /\ graph_image # None => numeric_result # <<>>
    /\ excel # <<>> => numeric_result # <<>>
    /\ event.type = "pdf" => graph_image # None
    /\ pdf # NoPdf => numeric_result # <<>> /\ pdf.image # None /\ pdf.result # <<>>

\* C10: in every sequence of user actions the distribution can be generated
\* and the Excel export is offered only after a Calculate has stored a
\* non-empty result, and the PDF report can be generated only after a result
\* and a distribution graph have been stored; only a press of Calculate puts
\* a result in the store and only a press of Generate Distribution Graph a
\* graph, so none of these steps is reached from the initial state without a
\* Calculate.
C10_StepsFollowCalculate ==
    /\ []StepsNeedResult
    /\ [][/\ numeric_result' # numeric_result => event'.type = "calculate"
          /\ graph_image' # graph_image =>
                 event'.type = "graph" /\ numeric_result # <<>>
          /\ pdf' # NoPdf =>
                 event'.type = "pdf" /\ numeric_result # <<>> /\ graph_image # None]_vars

C10_Witness ==
    /\ event.type = "pdf"
    /\ pdf # NoPdf
    /\ graph_image # None

\* The stored inputs and the stored result carry the labels of year y.
StoredBelongsTo(y) ==
    /\ Keys(values) = DeclaredLabels(y)
    /\ Keys(numeric_result) = ResultLabels(y)

\* C11: in every reachable state the code year and formula text that are
\* shown, and written into the PDF report, are those of the year whose
\* Calculate produced the stored inputs and the stored result: the stored
\* inputs and result carry the shown year's labels, a report prints them
\* under their own year and formula, and a run that changes the shown year
\* leaves no stored result of another year behind.
C11_StoredBelongsToShownYear ==
    /\ [](numeric_result # <<>> => StoredBelongsTo(year))
    /\ [](pdf # NoPdf =>
             /\ pdf.year = year
             /\ pdf.formula_text = FormulaText(year)
             /\ Keys(pdf.entered_values) = DeclaredLabels(pdf.year)
             /\ Keys(pdf.result) = ResultLabels(pdf.year))
    /\ [][year' # year => numeric_result' = <<>>]_vars

\* C11, the part about a single press: the stored inputs and the stored
\* result are always those of one and the same Calculate, of some year.
C11_StoredComeFromOnePress ==
    numeric_result # <<>> => \E y \in Years : StoredBelongsTo(y)

====
